---------------------------- MODULE Spec2Model ----------------------------
(***************************************************************************)
(* Model of sublime_jedi/facade.py: the JediFacade dispatcher, its action  *)
(* handlers and the two free functions format_completion and               *)
(* get_function_parameters.                                                *)
(*                                                                         *)
(* Python strings are sequences of one-character strings, so that the      *)
(* string operations of the source (in, replace, rsplit, lstrip, endswith, *)
(* split, join, % formatting) are computed rather than assumed.            *)
(* Python values that a caller can tell apart by type are tagged records:  *)
(* None, Str(s) and List(l).                                               *)
(***************************************************************************)
EXTENDS Integers, Sequences, FiniteSets, TLC

VARIABLES
    phase,           \* "constructed" | "dispatched" | "called" | "returned"
    self,            \* the JediFacade object: script (what the operations of the
                     \* jedi.Script answer), auto_complete_function_params
    ctor,            \* the arguments __init__ was called with
    action,          \* the action name of the last get(action)
    result,          \* the value get returned to its caller
    exc,             \* the exception get raised to its caller, "none" if it returned
    calls,           \* the jedi.Script operations that get invoked, in order
    logged,          \* whether logger.exception was called by that get
    call_signature,  \* get_function_parameters: first argument
    with_keywords,   \* get_function_parameters: second argument
    params           \* get_function_parameters: returned list

vars == <<phase, self, ctor, action, result, exc, calls, logged,
          call_signature, with_keywords, params>>

(***************************************************************************)
(* Bounds of the model.                                                    *)
(***************************************************************************)
MaxParams == 4        \* parameters of a signature given to get_function_parameters
MaxCallParams == 3    \* parameters of a signature answered by call_signatures()
MaxDefs == 2          \* records answered by goto_assignments/goto_definitions/usages
MaxCompletions == 2   \* records answered by completions()

(***************************************************************************)
(* Python values.                                                          *)
(***************************************************************************)
None == [t |-> "None", v |-> <<>>]
Str(s) == [t |-> "str", v |-> s]
List(l) == [t |-> "list", v |-> l]

(***************************************************************************)
(* Python string operations, on sequences of characters.                   *)
(***************************************************************************)
Whitespace == {" ", "\t", "\n"}

\* c in s, for a one-character c
Contains(s, c) == \E i \in 1..Len(s) : s[i] = c

\* s[i-1:].startswith(t), i 1-based
MatchAt(s, t, i) ==
    /\ i + Len(t) - 1 <= Len(s)
    /\ SubSeq(s, i, i + Len(t) - 1) = t

\* s.endswith(t)
EndsWith(s, t) ==
    /\ Len(s) >= Len(t)
    /\ SubSeq(s, Len(s) - Len(t) + 1, Len(s)) = t

\* s.replace(old, new), old not empty: leftmost non-overlapping occurrences
RECURSIVE Replace(_, _, _)
Replace(s, old, new) ==
    IF s = <<>> THEN <<>>
    ELSE IF MatchAt(s, old, 1)
         THEN new \o Replace(SubSeq(s, Len(old) + 1, Len(s)), old, new)
         ELSE <<s[1]>> \o Replace(Tail(s), old, new)

\* s.rsplit(c, 1)[1], for s containing the character c
RSplitLast(s, c) ==
    LET last == CHOOSE i \in 1..Len(s) :
                    /\ s[i] = c
                    /\ \A j \in (i + 1)..Len(s) : s[j] # c
    IN  SubSeq(s, last + 1, Len(s))

\* s.split(c, 1)[1], for s containing the character c: the text after the
\* first c, which the source does not compute (property C9 is stated with it)
SplitFirst(s, c) ==
    LET first == CHOOSE i \in 1..Len(s) :
                     /\ s[i] = c
                     /\ \A j \in 1..(i - 1) : s[j] # c
    IN  SubSeq(s, first + 1, Len(s))

\* s.lstrip()
RECURSIVE LStrip(_)
LStrip(s) ==
    IF s # <<>> /\ s[1] \in Whitespace THEN LStrip(Tail(s)) ELSE s

\* s.split(sep)[0]
RECURSIVE SplitHead(_, _)
SplitHead(s, sep) ==
    IF s = <<>> \/ MatchAt(s, sep, 1) THEN <<>>
    ELSE <<s[1]>> \o SplitHead(Tail(s), sep)

\* sep.join(parts)
RECURSIVE Join(_, _)
Join(sep, parts) ==
    IF parts = <<>> THEN <<>>
    ELSE IF Len(parts) = 1 THEN parts[1]
    ELSE parts[1] \o sep \o Join(sep, Tail(parts))

Digit(d) == CASE d = 0 -> "0" [] d = 1 -> "1" [] d = 2 -> "2" [] d = 3 -> "3"
              [] d = 4 -> "4" [] d = 5 -> "5" [] d = 6 -> "6" [] d = 7 -> "7"
              [] d = 8 -> "8" [] d = 9 -> "9"

\* '%d' % n, n >= 0
RECURSIVE FormatInt(_)
FormatInt(n) ==
    IF n < 10 THEN <<Digit(n)>>
    ELSE FormatInt(n \div 10) \o <<Digit(n % 10)>>

ParamPrefix == <<"p", "a", "r", "a", "m", " ">>       \* 'param '
TabParam == <<"\t", "p", "a", "r", "a", "m">>          \* '\tparam'

(***************************************************************************)
(* jedi records: parameters of a call signature.                           *)
(***************************************************************************)
P_self   == [name |-> <<"s", "e", "l", "f">>,
             description |-> ParamPrefix \o <<"s", "e", "l", "f">>]
P_a      == [name |-> <<"a">>, description |-> ParamPrefix \o <<"a">>]
P_b      == [name |-> <<"b">>, description |-> ParamPrefix \o <<"b", "=", "5">>]
P_c      == [name |-> <<"c">>, description |-> ParamPrefix \o <<"c", "=", " ", "7">>]
P_f      == [name |-> <<"f">>,
             description |-> ParamPrefix \o <<"f", "=", "g", "(", "x", "=", "1", ")">>]
P_args   == [name |-> <<"a", "r", "g", "s">>,
             description |-> ParamPrefix \o <<"*", "a", "r", "g", "s">>]
P_dots   == [name |-> <<".", ".", ".">>, description |-> <<".", ".", ".">>]
P_noname == [name |-> <<>>, description |-> ParamPrefix]

ParamPool == {P_self, P_a, P_b, P_c, P_f, P_args, P_dots, P_noname}

\* parameter lists of at most n parameters, no parameter declared twice
ParamLists(pool, n) ==
    {s \in UNION {[1..k -> pool] : k \in 0..n} :
        \A i, j \in 1..Len(s) : i # j => s[i] # s[j]}

Signatures(pool, n) == {[params |-> s] : s \in ParamLists(pool, n)}

\* the parameters of the signatures call_signatures() answers with
CallParamPool == {P_self, P_a, P_b, P_args}

(***************************************************************************)
(* get_function_parameters                                                 *)
(***************************************************************************)
\* lines 43-46 with the `or` bound inside the `not with_keywords and`
SkipVariadic_Grouped(param, kw) ==
    ~kw /\ (\/ param.name = <<".", ".", ".">>
            \/ Contains(param.description, "*"))

\* lines 43-46: the first `continue`
SkipVariadic(param, kw) ==
    \/ (~kw /\ param.name = <<".", ".", ".">>)
    \/ Contains(param.description, "*")

\* lines 48-49: the second `continue`
SkipByName(param) ==
    \/ param.name = <<>>
    \/ param.name \in {<<"s", "e", "l", "f">>, <<".", ".", ".">>}

\* lines 51-60 without the `continue` of line 58
ParamEntries_KeepDefault(param, kw) ==
    LET param_description == Replace(param.description, ParamPrefix, <<>>)
        is_keyword == Contains(param_description, "=")
    IN  IF is_keyword /\ kw
        THEN <<<<param.name, Str(LStrip(RSplitLast(param_description, "=")))>>>>
        ELSE <<<<param.name, None>>>>

\* lines 51-60: what one parameter that was not skipped appends to params
ParamEntries(param, kw) ==
    LET param_description == Replace(param.description, ParamPrefix, <<>>)
        is_keyword == Contains(param_description, "=")
    IN  IF is_keyword /\ kw
        THEN <<<<param.name, Str(LStrip(RSplitLast(param_description, "=")))>>>>
        ELSE IF is_keyword /\ ~kw
        THEN <<>>
        ELSE <<<<param.name, None>>>>

RECURSIVE ParamLoop(_, _)
ParamLoop(ps, kw) ==
    IF ps = <<>> THEN <<>>
    ELSE (IF SkipVariadic(ps[1], kw) \/ SkipByName(ps[1])
          THEN <<>>
          ELSE ParamEntries(ps[1], kw))
         \o ParamLoop(Tail(ps), kw)

get_function_parameters(sig, kw) ==
    IF sig = None THEN <<>> ELSE ParamLoop(sig.params, kw)

(***************************************************************************)
(* jedi records: definitions/usages and completions.                       *)
(***************************************************************************)
D_import  == [type |-> "import", module_path |-> "pkg/mod.py", line |-> 1,
              column |-> 7, in_builtin_module |-> FALSE,
              docstring |-> <<>>]
D_stdlib  == [type |-> "import", module_path |-> "os.pyi", line |-> 2,
              column |-> 0, in_builtin_module |-> TRUE,
              docstring |-> <<"o", "s">>]
D_func    == [type |-> "function", module_path |-> "app.py", line |-> 3,
              column |-> 4, in_builtin_module |-> FALSE,
              docstring |-> <<"f", "(", "a", ",", "\n", "b", " ", "=", " ", "5", ")",
                              "\n", "\n", "D", "o", "c">>]

DefPool == {D_import, D_stdlib, D_func}

DefLists(n) == UNION {[1..k -> DefPool] : k \in 0..n}

C_func  == [name |-> <<"f">>, type |-> <<"f", "u", "n", "c", "t", "i", "o", "n">>]
C_param == [name |-> <<"a">>, type |-> <<"p", "a", "r", "a", "m">>]
C_stmt  == [name |-> <<"x">>, type |-> <<"s", "t", "a", "t", "e", "m", "e", "n", "t">>]

CompletionPool == {C_func, C_param, C_stmt}

CompletionLists(n) == UNION {[1..k -> CompletionPool] : k \in 0..n}

(***************************************************************************)
(* What one operation of a jedi.Script answers: a list, or an exception.   *)
(* KeyboardInterrupt stands for the exceptions that are not subclasses of  *)
(* Exception.                                                              *)
(***************************************************************************)
Ok(v) == [exc |-> "none", val |-> v]
Fail(k) == [exc |-> k, val |-> <<>>]

Raises == {"IndexError", "Exception", "KeyboardInterrupt"}
Failures == {Fail(k) : k \in Raises}

DefAnswers == {Ok(l) : l \in DefLists(MaxDefs)} \cup Failures
CompletionAnswers == {Ok(l) : l \in CompletionLists(MaxCompletions)} \cup Failures
SignatureAnswers ==
    {Ok(<<>>)} \cup {Ok(<<sig>>) : sig \in Signatures(CallParamPool, MaxCallParams)} \cup Failures

Quiet == [goto_assignments |-> Ok(<<>>), goto_definitions |-> Ok(<<>>),
          usages |-> Ok(<<>>), completions |-> Ok(<<>>),
          call_signatures |-> Ok(<<>>)]

\* the sessions jedi.Script(...) can build: what each operation answers for
\* the source and cursor the session was opened on
Scripts ==
    {[Quiet EXCEPT !.goto_assignments = a, !.goto_definitions = d] :
        a \in DefAnswers, d \in DefAnswers}
    \cup {[Quiet EXCEPT !.usages = u] : u \in DefAnswers}
    \cup {[Quiet EXCEPT !.call_signatures = s, !.completions = c] :
        s \in SignatureAnswers, c \in CompletionAnswers}

FuncargsModes == {"", "required", "all"}

(***************************************************************************)
(* What a method leaves behind: a returned value or a raised exception,    *)
(* the jedi operations it invoked, and the object after the call.          *)
(***************************************************************************)
Return(s, v, cs) == [ret |-> v, exc |-> "none", calls |-> cs, self |-> s]
Raise(s, e, cs) == [ret |-> None, exc |-> e, calls |-> cs, self |-> s]

format_completion(complete) ==
    <<complete.name \o <<"\t">> \o complete.type, complete.name>>

\* the list comprehension without its `if not i.in_builtin_module()`
LocationTriples_KeepBuiltins(definitions) ==
    [k \in 1..Len(definitions) |->
        <<definitions[k].module_path, definitions[k].line,
          definitions[k].column + 1>>]

\* lines 179-180 and 188-189: the list comprehension of _goto and _usages
LocationTriples(definitions) ==
    LET kept == SelectSeq(definitions, LAMBDA i : ~i.in_builtin_module)
    IN  [k \in 1..Len(kept) |->
            <<kept[k].module_path, kept[k].line, kept[k].column + 1>>]

\* _goto with any() in place of all()
_goto_Any(s) ==
    LET a == s.script.goto_assignments
        d == s.script.goto_definitions
    IN  IF a.exc # "none" THEN Raise(s, a.exc, <<"goto_assignments">>)
        ELSE IF \E i \in 1..Len(a.val) : a.val[i].type = "import"
        THEN IF d.exc # "none"
             THEN Raise(s, d.exc, <<"goto_assignments", "goto_definitions">>)
             ELSE Return(s, List(LocationTriples(d.val)),
                         <<"goto_assignments", "goto_definitions">>)
        ELSE Return(s, List(LocationTriples(a.val)), <<"goto_assignments">>)

_goto(s) ==
    LET a == s.script.goto_assignments
        d == s.script.goto_definitions
    IN  IF a.exc # "none" THEN Raise(s, a.exc, <<"goto_assignments">>)
        ELSE IF \A i \in 1..Len(a.val) : a.val[i].type = "import"
        THEN IF d.exc # "none"
             THEN Raise(s, d.exc, <<"goto_assignments", "goto_definitions">>)
             ELSE Return(s, List(LocationTriples(d.val)),
                         <<"goto_assignments", "goto_definitions">>)
        ELSE Return(s, List(LocationTriples(a.val)), <<"goto_assignments">>)

_usages(s) ==
    LET u == s.script.usages
    IN  IF u.exc # "none" THEN Raise(s, u.exc, <<"usages">>)
        ELSE Return(s, List(LocationTriples(u.val)), <<"usages">>)

\* _docstring ending with `return ''` when there is no definition
_docstring_EmptyString(s, signature) ==
    LET d == s.script.goto_definitions
    IN  IF d.exc # "none" THEN Raise(s, d.exc, <<"goto_definitions">>)
        ELSE IF Len(d.val) > 0
        THEN IF signature
             THEN LET calltip_signature ==
                          SplitHead(d.val[1].docstring, <<"\n", "\n">>)
                  IN  Return(s, Str(Replace(Replace(calltip_signature,
                                                    <<"\n">>, <<" ">>),
                                            <<" ", "=", " ">>, <<"=">>)),
                             <<"goto_definitions">>)
             ELSE Return(s, Str(d.val[1].docstring), <<"goto_definitions">>)
        ELSE Return(s, Str(<<>>), <<"goto_definitions">>)

_docstring(s, signature) ==
    LET d == s.script.goto_definitions
    IN  IF d.exc # "none" THEN Raise(s, d.exc, <<"goto_definitions">>)
        ELSE IF Len(d.val) > 0
        THEN IF signature
             THEN LET calltip_signature ==
                          SplitHead(d.val[1].docstring, <<"\n", "\n">>)
                  IN  Return(s, Str(Replace(Replace(calltip_signature,
                                                    <<"\n">>, <<" ">>),
                                            <<" ", "=", " ">>, <<"=">>)),
                             <<"goto_definitions">>)
             ELSE Return(s, Str(d.val[1].docstring), <<"goto_definitions">>)
        ELSE Return(s, None, <<"goto_definitions">>)

\* the generator, as the list of what it yields once consumed
_completion(s) ==
    LET c == s.script.completions
    IN  IF c.exc # "none" THEN Raise(s, c.exc, <<"completions">>)
        ELSE Return(s, [k \in 1..Len(c.val) |-> format_completion(c.val[k])],
                    <<"completions">>)

\* the loop body with `index` in place of `index + 1`
CallEntry_ZeroBased(parameter, index, with_values) ==
    LET name == parameter[1]
        value == parameter[2]
    IN  IF value # None /\ with_values
        THEN <<name \o TabParam,
               name \o <<"=", "$", "{">> \o FormatInt(index - 1) \o <<":">>
                    \o value.v \o <<"}">>>>
        ELSE <<name \o TabParam,
               <<"$", "{">> \o FormatInt(index - 1) \o <<":">> \o name \o <<"}">>>>

\* lines 207-215: what the loop yields for parameters[index - 1]
CallEntry(parameter, index, with_values) ==
    LET name == parameter[1]
        value == parameter[2]
    IN  IF value # None /\ with_values
        THEN <<name \o TabParam,
               name \o <<"=", "$", "{">> \o FormatInt(index) \o <<":">>
                    \o value.v \o <<"}">>>>
        ELSE <<name \o TabParam,
               <<"$", "{">> \o FormatInt(index) \o <<":">> \o name \o <<"}">>>>

\* the generator, as the list of what it yields once consumed
_complete_call_assigments(s, kw, with_values) ==
    LET c == s.script.call_signatures
    IN  IF c.exc = "IndexError" \/ (c.exc = "none" /\ c.val = <<>>)
        THEN Return(s, <<>>, <<"call_signatures">>)
        ELSE IF c.exc # "none" THEN Raise(s, c.exc, <<"call_signatures">>)
        ELSE LET parameters == get_function_parameters(c.val[1], kw)
             IN  Return(s, [k \in 1..Len(parameters) |->
                               CallEntry(parameters[k], k, with_values)],
                        <<"call_signatures">>)

get_goto(s) == _goto(s)

get_usages(s) == _usages(s)

\* get_funcargs writing the normalised mode back to the object
get_funcargs_StoresMode(s) ==
    LET complete_all == s.auto_complete_function_params = "all"
        stored == [s EXCEPT !.auto_complete_function_params =
                                IF complete_all THEN "all" ELSE ""]
        call_parameters == _complete_call_assigments(stored, complete_all,
                                                     complete_all)
    IN  IF call_parameters.exc # "none" THEN call_parameters
        ELSE Return(stored, Str(Join(<<",", " ">>,
                                     [k \in 1..Len(call_parameters.ret) |->
                                         call_parameters.ret[k][2]])),
                    call_parameters.calls)

get_funcargs(s) ==
    LET complete_all == s.auto_complete_function_params = "all"
        call_parameters == _complete_call_assigments(s, complete_all, complete_all)
    IN  IF call_parameters.exc # "none" THEN call_parameters
        ELSE Return(s, Str(Join(<<",", " ">>,
                                [k \in 1..Len(call_parameters.ret) |->
                                    call_parameters.ret[k][2]])),
                    call_parameters.calls)

\* get_autocomplete chaining the completions without the filter
get_autocomplete_Unfiltered(s) ==
    LET args == _complete_call_assigments(s, TRUE, FALSE)
        completion == _completion(s)
    IN  IF args.exc # "none" THEN args
        ELSE IF completion.exc # "none"
        THEN Raise(s, completion.exc, args.calls \o completion.calls)
        ELSE Return(s, List(args.ret \o completion.ret),
                    args.calls \o completion.calls)

get_autocomplete(s) ==
    LET args == _complete_call_assigments(s, TRUE, FALSE)
        completion == _completion(s)
    IN  IF args.exc # "none" THEN args
        ELSE IF completion.exc # "none"
        THEN Raise(s, completion.exc, args.calls \o completion.calls)
        ELSE Return(s, List(args.ret \o SelectSeq(completion.ret,
                                LAMBDA c : ~EndsWith(c[1], TabParam))),
                    args.calls \o completion.calls)

get_docstring(s) == _docstring(s, FALSE)

get_signature(s) == _docstring(s, TRUE)

\* getattr(self, 'get_' + action)(): AttributeError when there is no such method
Handler(s, a) ==
    CASE a = "goto" -> get_goto(s)
      [] a = "usages" -> get_usages(s)
      [] a = "funcargs" -> get_funcargs(s)
      [] a = "autocomplete" -> get_autocomplete(s)
      [] a = "docstring" -> get_docstring(s)
      [] a = "signature" -> get_signature(s)
      [] OTHER -> Raise(s, "AttributeError", <<>>)

\* line 109 as `except AttributeError`
Caught_AttributeErrorOnly(e) == e = "AttributeError"

\* line 109: `except Exception` catches the subclasses of Exception
Caught(e) == e \in {"Exception", "IndexError", "AttributeError"}

get(s, a) ==
    LET o == Handler(s, a)
    IN  IF o.exc = "none" THEN [o EXCEPT !.ret = o.ret] @@ [logged |-> FALSE]
        ELSE IF Caught(o.exc)
        THEN [o EXCEPT !.ret = None, !.exc = "none"] @@ [logged |-> TRUE]
        ELSE o @@ [logged |-> FALSE]

Handlers == {"goto", "usages", "docstring", "signature", "autocomplete", "funcargs"}
ActionNames == Handlers \cup {"rename", ""}

(***************************************************************************)
(* Specification of the free function: Init draws the arguments, Call      *)
(* applies get_function_parameters to them.                                *)
(***************************************************************************)
Idle == [script |-> "none", auto_complete_function_params |-> ""]

FacadeUnused ==
    /\ self = Idle /\ ctor = Idle /\ action = ""
    /\ result = None /\ exc = "none" /\ calls = <<>> /\ logged = FALSE

InitParams ==
    /\ phase = "called"
    /\ call_signature \in Signatures(ParamPool, MaxParams) \cup {None}
    /\ with_keywords \in BOOLEAN
    /\ params = <<>>
    /\ FacadeUnused

Call ==
    /\ phase = "called"
    /\ phase' = "returned"
    /\ params' = get_function_parameters(call_signature, with_keywords)
    /\ UNCHANGED <<self, ctor, action, result, exc, calls, logged,
                   call_signature, with_keywords>>

NextParams == Call

SpecParams == InitParams /\ [][NextParams]_vars

(***************************************************************************)
(* Specification of the facade: Init is the state __init__ leaves, and     *)
(* Dispatch is one call of get(action).                                    *)
(***************************************************************************)
ParamsUnused ==
    /\ call_signature = None /\ with_keywords = FALSE /\ params = <<>>

Init ==
    /\ phase = "constructed"
    /\ \E script \in Scripts, complete_funcargs \in FuncargsModes :
          /\ self = [script |-> script,
                     auto_complete_function_params |-> complete_funcargs]
          /\ ctor = self
    /\ action = ""
    /\ result = None
    /\ exc = "none"
    /\ calls = <<>>
    /\ logged = FALSE
    /\ ParamsUnused

Dispatch(a) ==
    /\ phase \in {"constructed", "dispatched"}
    /\ LET o == get(self, a)
       IN  /\ self' = o.self
           /\ result' = o.ret
           /\ exc' = o.exc
           /\ calls' = o.calls
           /\ logged' = o.logged
    /\ action' = a
    /\ phase' = "dispatched"
    /\ UNCHANGED <<ctor, call_signature, with_keywords, params>>

Next == \E a \in ActionNames : Dispatch(a)

Spec == Init /\ [][Next]_vars

(***************************************************************************)
(* Properties of get_function_parameters, checked under SpecParams.        *)
(***************************************************************************)
Returned == phase = "returned" /\ call_signature # None

\* the position in the signature of the parameter that output entry i names
DeclaredAt(i) ==
    CHOOSE k \in 1..Len(call_signature.params) :
        call_signature.params[k].name = params[i][1]

\* C6: whatever the signature and with_keywords, the returned list holds no
\* parameter named "self" or "...", none with an empty name and none whose
\* description contains "*", and what it holds is in declaration order.
C6_ExcludesSelfAndVariadic ==
    Returned =>
        /\ \A i \in 1..Len(params) :
              /\ params[i][1] \notin {<<"s", "e", "l", "f">>, <<".", ".", ".">>, <<>>}
              /\ \E k \in 1..Len(call_signature.params) :
                    /\ call_signature.params[k].name = params[i][1]
                    /\ \A c \in 1..Len(call_signature.params[k].description) :
                          call_signature.params[k].description[c] # "*"
        /\ \A i, j \in 1..Len(params) : i < j => DeclaredAt(i) < DeclaredAt(j)

C6_Witness ==
    /\ Returned
    /\ with_keywords
    /\ call_signature.params = <<P_self, P_args, P_b, P_a>>
    /\ Len(params) = 2

\* the signature (self, a, b=5, *args)
C7_Signature == [params |-> <<P_self, P_a, P_b, P_args>>]

\* C7, as stated: for (self, a, b=5, *args) and with_keywords false the
\* function returns [("a", None), ("b", None)].
C7_DefaultKeptWithoutValue ==
    (Returned /\ call_signature = C7_Signature /\ ~with_keywords)
        => params = <<<<<<"a">>, None>>, <<<<"b">>, None>>>>

\* C7, amended: for (self, a, b=5, *args) and with_keywords false the
\* function returns [("a", None)]; with with_keywords false a parameter whose
\* description contains "=" is left out of the list, and every entry of the
\* list has the value None.
C7_DefaultSkippedWithoutKeywords ==
    (Returned /\ ~with_keywords) =>
        /\ call_signature = C7_Signature => params = <<<<<<"a">>, None>>>>
        /\ \A i \in 1..Len(params) :
              /\ params[i][2] = None
              /\ ~\E c \in 1..Len(call_signature.params[DeclaredAt(i)].description) :
                    call_signature.params[DeclaredAt(i)].description[c] = "="

C7_Witness ==
    /\ Returned
    /\ call_signature = C7_Signature
    /\ ~with_keywords

\* C9: with with_keywords true, every parameter whose description contains
\* "=" is returned as (name, v), v being the text of the description after
\* its FIRST "=", left-stripped.
C9_ValueAfterFirstEquals ==
    (Returned /\ with_keywords) =>
        \A k \in 1..Len(call_signature.params) :
            LET p == call_signature.params[k]
            IN  Contains(p.description, "=") =>
                    \E i \in 1..Len(params) :
                        params[i] = <<p.name, Str(LStrip(SplitFirst(p.description, "=")))>>

(***************************************************************************)
(* Properties of the facade, checked under Spec.                           *)
(***************************************************************************)
Dispatched == phase = "dispatched"

\* the subclasses of Exception among the exceptions of the model
ExceptionClasses == {"Exception", "IndexError", "AttributeError"}

\* the handler of the last action ran to its end and get returned its value
Succeeded == Dispatched /\ action \in Handlers /\ exc = "none" /\ ~logged

\* C1: get(action) raises no Exception to its caller; when there is no
\* handler get_<action>, or the handler (with the generators it consumes)
\* raises an Exception, get logs it and returns None.
C1_GetSwallowsExceptions ==
    Dispatched =>
        /\ exc \notin ExceptionClasses
        /\ (action \notin Handlers \/ Handler(ctor, action).exc \in ExceptionClasses)
              => (exc = "none" /\ result = None /\ logged)

C1_Witness ==
    /\ Dispatched
    /\ action = "autocomplete"
    /\ self.script.call_signatures.exc = "none"
    /\ self.script.completions.exc = "Exception"
    /\ calls = <<"call_signatures", "completions">>
    /\ logged

\* the engine finds nothing: every operation of the session answers []
NothingFound == Dispatched /\ action \in Handlers /\ self.script = Quiet

\* C2, as stated: for every action, the value get returns when the engine
\* finds nothing is the value it returns when the handler raises (None).
C2_NothingFoundIsFailureValue ==
    NothingFound => result = None

\* C2, amended: when the engine finds nothing get returns None for docstring
\* and signature, the empty list for goto, usages and autocomplete and the
\* empty string for funcargs; when the handler raises an Exception it
\* returns None for every action. Only for docstring and signature are the
\* two values identical.
C2_NothingFoundValues ==
    /\ NothingFound =>
          result = CASE action \in {"docstring", "signature"} -> None
                     [] action \in {"goto", "usages", "autocomplete"} -> List(<<>>)
                     [] action = "funcargs" -> Str(<<>>)
    /\ (Dispatched /\ action \in Handlers
            /\ Handler(ctor, action).exc \in ExceptionClasses) => result = None

C2_Witness ==
    /\ NothingFound
    /\ action = "signature"
    /\ calls = <<"goto_definitions">>
    /\ ~logged

AllImports(defs) == \A i \in 1..Len(defs) : defs[i].type = "import"

\* the records the last goto or usages took its results from
ResultSource ==
    IF action = "usages" THEN self.script.usages.val
    ELSE IF AllImports(self.script.goto_assignments.val)
         THEN self.script.goto_definitions.val
         ELSE self.script.goto_assignments.val

\* C3: goto takes its results from goto_definitions when every result of
\* goto_assignments is an import (also when there is none), and from
\* goto_assignments, without calling goto_definitions, otherwise.
C3_GotoFollowsImports ==
    (Dispatched /\ action = "goto" /\ self.script.goto_assignments.exc = "none") =>
        IF AllImports(self.script.goto_assignments.val)
        THEN /\ calls = <<"goto_assignments", "goto_definitions">>
             /\ self.script.goto_definitions.exc = "none" =>
                    result = List(LocationTriples(self.script.goto_definitions.val))
        ELSE /\ calls = <<"goto_assignments">>
             /\ result = List(LocationTriples(self.script.goto_assignments.val))

C3_Witness ==
    /\ Dispatched
    /\ action = "goto"
    /\ self.script.goto_assignments = Ok(<<D_import>>)
    /\ self.script.goto_definitions = Ok(<<D_func>>)
    /\ result = List(<<<<"app.py", 3, 5>>>>)

\* C4: goto and usages return exactly the records that are not in a built-in
\* module, in the engine's order, each as (module path, line, column + 1).
C4_BuiltinsFilteredOnly ==
    (Succeeded /\ action \in {"goto", "usages"}) =>
        LET src == ResultSource
            kept == {k \in 1..Len(src) : ~src[k].in_builtin_module}
            nth(i) == CHOOSE k \in kept : Cardinality({j \in kept : j <= k}) = i
        IN  /\ result.t = "list"
            /\ Len(result.v) = Cardinality(kept)
            /\ \A i \in 1..Len(result.v) :
                  result.v[i] = <<src[nth(i)].module_path, src[nth(i)].line,
                                  src[nth(i)].column + 1>>

C4_Witness ==
    /\ Succeeded
    /\ action = "usages"
    /\ self.script.usages.val = <<D_stdlib, D_func>>
    /\ result = List(<<<<"app.py", 3, 5>>>>)

\* '${k:name}'
NameStop(k, name) == <<"$", "{">> \o FormatInt(k) \o <<":">> \o name \o <<"}">>

\* C5: autocomplete returns the call-argument entries, then the completions
\* of the engine as (name + "\t" + type, name) without those whose label ends
\* with "\tparam", each group in its order; an entry whose label ends with
\* "\tparam" is a call-argument entry, and every call-argument entry has the
\* insert text ${k:name}.
C5_AutocompleteMerge ==
    (Succeeded /\ action = "autocomplete") =>
        LET out == result.v
            labelled == [k \in 1..Len(self.script.completions.val) |->
                            LET c == self.script.completions.val[k]
                            IN  <<c.name \o <<"\t">> \o c.type, c.name>>]
            regular == SelectSeq(labelled, LAMBDA e : ~EndsWith(e[1], TabParam))
            args == _complete_call_assigments(ctor, TRUE, FALSE).ret
            n == Len(out) - Len(regular)
        IN  /\ result.t = "list"
            /\ n = Len(args)
            /\ SubSeq(out, 1, n) = args
            /\ SubSeq(out, n + 1, Len(out)) = regular
            /\ \A i \in 1..Len(out) : EndsWith(out[i][1], TabParam) => i <= n
            /\ \A i \in 1..n :
                  \E name \in {p.name : p \in CallParamPool} :
                      out[i] = <<name \o TabParam, NameStop(i, name)>>

C5_Witness ==
    /\ Succeeded
    /\ action = "autocomplete"
    /\ self.script.call_signatures = Ok(<<[params |-> <<P_self, P_a, P_b>>]>>)
    /\ self.script.completions = Ok(<<C_param, C_func>>)
    /\ Len(result.v) = 3

\* the insert text C8 states for parameter (name, value) at 1-based stop k
C8_Insert(parameter, k, with_values) ==
    IF parameter[2] # None /\ with_values
    THEN parameter[1] \o <<"=", "$", "{">> \o FormatInt(k) \o <<":">>
             \o parameter[2].v \o <<"}">>
    ELSE NameStop(k, parameter[1])

\* the entries C8 states for the list get_function_parameters returns
C8_Entries(kw, with_values) ==
    LET c == self.script.call_signatures
        parameters == IF c.exc = "none" /\ c.val # <<>>
                      THEN get_function_parameters(c.val[1], kw) ELSE <<>>
    IN  [k \in 1..Len(parameters) |->
            <<parameters[k][1] \o TabParam,
              C8_Insert(parameters[k], k, with_values)>>]

\* C8: for the parameter at 0-based position i of the list returned by
\* get_function_parameters the builder yields (name + "\tparam", insert),
\* insert being name=${i+1:value} when the parameter has a default and
\* with_values is true and ${i+1:name} otherwise, so the stops are 1..n; with
\* no call signature it yields nothing and funcargs returns "".
C8_SnippetEntries ==
    /\ (Succeeded /\ action = "funcargs") =>
          LET all == ctor.auto_complete_function_params = "all"
              entries == C8_Entries(all, all)
          IN  /\ result = Str(Join(<<",", " ">>,
                                   [k \in 1..Len(entries) |-> entries[k][2]]))
              /\ self.script.call_signatures = Ok(<<>>) => result = Str(<<>>)
    /\ (Succeeded /\ action = "autocomplete") =>
          LET entries == C8_Entries(TRUE, FALSE)
          IN  SubSeq(result.v, 1, Len(entries)) = entries

C8_Witness ==
    /\ Succeeded
    /\ action = "funcargs"
    /\ self.auto_complete_function_params = "all"
    /\ self.script.call_signatures = Ok(<<[params |-> <<P_args, P_a, P_b>>]>>)
    /\ result = Str(<<"$", "{", "1", ":", "a", "}", ",", " ",
                      "b", "=", "$", "{", "2", ":", "5", "}">>)

\* C10: whatever was dispatched before, the facade holds the session and the
\* flag the constructor set, and what get(action) returns or raises is what
\* it returns or raises on the facade as constructed.
C10_DispatchLeavesFacade ==
    /\ self = ctor
    /\ Dispatched =>
          /\ result = get(ctor, action).ret
          /\ exc = get(ctor, action).exc
          /\ calls = get(ctor, action).calls

C10_Witness ==
    /\ Dispatched
    /\ action = "funcargs"
    /\ self.auto_complete_function_params = "required"
    /\ self.script.call_signatures = Ok(<<[params |-> <<P_a, P_b>>]>>)
    /\ result = Str(<<"$", "{", "1", ":", "a", "}">>)

=============================================================================
